---- MODULE Spec2Model ----
(***************************************************************************)
(* Model of utils/training.py: mask_classes, evaluate and train.           *)
(*                                                                         *)
(* Three specifications share the module:                                  *)
(*   SpecMask  - mask_classes applied to bounded output tensors            *)
(*   SpecEval  - evaluate applied to bounded models / datasets             *)
(*   Spec      - the control flow of train, one action per block of code   *)
(*                                                                         *)
(* Numeric work done by the external framework is kept small but real:     *)
(* a tensor is a sequence of rows of integers, -inf is the integer NegInf  *)
(* (smaller than every logit), torch.max(..., 1) is ArgMax, and every test *)
(* loader holds one batch of one sample.                                   *)
(***************************************************************************)
EXTENDS Integers, Sequences, FiniteSets, TLC

\* ------------------------------------------------------------------ bounds
MaxRows == 1        \* rows of the tensor given to mask_classes
MaxCols == 4        \* columns of the tensor given to mask_classes
MaxMaskTasks == 3   \* dataset.N_TASKS in the mask_classes specification
MaxClasses == 2     \* dataset.N_CLASSES_PER_TASK
MaxLoaders == 3     \* len(dataset.test_loaders) in the evaluate specification

\* -inf of line 36/38, below every logit of the model
NegInf == -1

MaxTasks == 2       \* dataset.N_TASKS in the train specification
MaxEpochs == 2      \* model.args.n_epochs
MaxBatches == 5     \* len(train_loader)

\* line 166: if args.debug_mode and i > 3: break
DebugLastBatch == 3

VARIABLES
    mk,     \* mask_classes: its arguments and the tensor after the call
    ev,     \* evaluate: its arguments and what it returned
    cfg,    \* train: args, and the attributes of model and dataset it reads
    pc,     \* train: the block of code to run next
    t,      \* train: task index of line 148
    epoch,  \* train: epoch index of line 162
    i,      \* train: batch index of line 165
    results,                \* line 134
    results_mask_classes,   \* line 134
    test_loaders,   \* dataset.test_loaders, one label per loader
    weights,        \* model.net: the shift of its logits (see Forward)
    loss,           \* what the last model.meta_observe returned
    calls,          \* how often each collaborator was called
    saved,          \* per task, the checkpoint files written
    error           \* the exception that ended train, or "none"

trainVars == <<cfg, pc, t, epoch, i, results, results_mask_classes,
               test_loaders, weights, loss, calls, saved, error>>

vars == <<mk, ev, cfg, pc, t, epoch, i, results, results_mask_classes,
          test_loaders, weights, loss, calls, saved, error>>

\* =================================================================
\* mask_classes (lines 27-38)
\* =================================================================

\* Python slice bounds: a non-negative bound is clamped to the length
Clamp(x, n) == IF x > n THEN n ELSE x

\* row[a:b] = v  for 0 <= a, 0 <= b (0-based, b exclusive); row is 1-based here
SliceAssign(row, a, b, v) ==
    LET n == Len(row)
        from == Clamp(a, n)
        to == Clamp(b, n)
    IN  [j \in 1..n |-> IF from <= j - 1 /\ j - 1 < to THEN v ELSE row[j]]

\* mutant: the second slice starts at k*C instead of (k+1)*C
mask_classes_wrong_upper(outputs, N_TASKS, N_CLASSES_PER_TASK, k) ==
    [r \in 1..Len(outputs) |->
        SliceAssign(
            SliceAssign(outputs[r], 0, k * N_CLASSES_PER_TASK, NegInf),
            k * N_CLASSES_PER_TASK + 1,
            N_TASKS * N_CLASSES_PER_TASK, NegInf)]

\* outputs[:, 0:k*C] = -inf ; outputs[:, (k+1)*C : N_TASKS*C] = -inf
mask_classes(outputs, N_TASKS, N_CLASSES_PER_TASK, k) ==
    [r \in 1..Len(outputs) |->
        SliceAssign(
            SliceAssign(outputs[r], 0, k * N_CLASSES_PER_TASK, NegInf),
            (k + 1) * N_CLASSES_PER_TASK,
            N_TASKS * N_CLASSES_PER_TASK, NegInf)]

\* tensors of logits: rows x cols over {0, 1}
Rows(cols) == [1..cols -> {0, 1}]
Tensors == UNION {[1..r -> Rows(c)] : r \in 1..MaxRows, c \in 1..MaxCols}

NoMask == [outputs |-> <<>>, before |-> <<>>, N_TASKS |-> 0,
           N_CLASSES_PER_TASK |-> 0, k |-> 0, called |-> FALSE]

\* =================================================================
\* evaluate (lines 41-113)
\* =================================================================

\* torch.max(outputs.data, 1): 0-based index of the largest entry of the row
ArgMax(row) ==
    LET n == Len(row)
    IN  CHOOSE j \in 0..(n - 1) :
            /\ \A x \in 0..(n - 1) : row[x + 1] <= row[j + 1]
            /\ \A x \in 0..(j - 1) : row[x + 1] < row[j + 1]

\* model(inputs) / model(inputs, k), lines 71-80: the network is external;
\* it is stood for by one row of N_TASKS*C distinct logits that depends on
\* the state of the weights (model.shift)
Forward(model, dataset) ==
    LET n == dataset.N_TASKS * dataset.N_CLASSES_PER_TASK
    IN  <<[j \in 1..n |-> (j - 1 + model.shift) % n]>>

\* lines 82-84: correct for the one batch of loader k (total is 1)
Correct(model, dataset, k) ==
    IF ArgMax(Forward(model, dataset)[1]) = dataset.test_loaders[k + 1]
    THEN 1 ELSE 0

\* lines 92-95: correct_mask_classes for the one batch of loader k
CorrectMaskClasses(model, dataset, k) ==
    IF dataset.SETTING = "class-il"
    THEN IF ArgMax(mask_classes(Forward(model, dataset), dataset.N_TASKS,
                                dataset.N_CLASSES_PER_TASK, k)[1])
              = dataset.test_loaders[k + 1]
         THEN 1 ELSE 0
    ELSE 0

\* lines 97-98: the class-il accuracy appended for loader k
ClassIlAcc(model, dataset, k) ==
    IF model.class_il THEN (Correct(model, dataset, k) * 100) \div 1 ELSE 0

\* line 99: the task-il accuracy appended for loader k
TaskIlAcc(model, dataset, k) ==
    (CorrectMaskClasses(model, dataset, k) * 100) \div 1

\* mutant: the guard of line 59 compares with len - 2
SkipLoader_OffByOne(last, k, n) == last /\ k < n - 2

\* line 59: if last and k < len(dataset.test_loaders) - 1: continue
SkipLoader(last, k, n) == last /\ k < n - 1

\* lines 58-62: the loaders, from loader k on, whose batches the loop reads,
\* in the order it reads them
RECURSIVE Iterated(_, _, _)
Iterated(last, k, n) ==
    IF k >= n THEN <<>>
    ELSE IF SkipLoader(last, k, n)
         THEN Iterated(last, k + 1, n)
         ELSE <<k>> \o Iterated(last, k + 1, n)

\* lines 56-99: the loop over dataset.test_loaders: one entry is appended
\* to accs and to accs_mask_classes for every loader that is read
EvalLoop(model, dataset, last) ==
    LET it == Iterated(last, 0, Len(dataset.test_loaders))
    IN  [accs |-> [x \in 1..Len(it) |-> ClassIlAcc(model, dataset, it[x])],
         accs_mask_classes |->
             [x \in 1..Len(it) |-> TaskIlAcc(model, dataset, it[x])],
         iterated |-> it]

\* lines 101-106: the means of the saliency metrics ('kld', 'cc', 'sim');
\* compute_saliency_metrics is external, its scores are stood for by 0
FinalSalScores == <<0, 0, 0>>

\* evaluate(model, dataset, last): ret is the returned tuple (lines 108-113),
\* iterated the loaders read, training the mode net is left in (line 108)
evaluate(model, dataset, last) ==
    LET r == EvalLoop(model, dataset, last)
    IN  [ret |-> IF model.saliency_net
                 THEN <<r.accs, r.accs_mask_classes, FinalSalScores>>
                 ELSE <<r.accs, r.accs_mask_classes>>,
         iterated |-> r.iterated,
         training |-> model.training]

\* test loader k holds one sample of the first class of task k
TestLoaders(n, c) == [k \in 1..n |-> (k - 1) * c]

Settings == {"class-il", "task-il"}

NoEval == [called |-> FALSE]

\* the train variables of the specifications that never run train
TrainIdle ==
    /\ cfg = [N_TASKS |-> 0] /\ pc = "idle"
    /\ t = 0 /\ epoch = 0 /\ i = 0
    /\ results = <<>> /\ results_mask_classes = <<>>
    /\ test_loaders = <<>> /\ weights = 0 /\ loss = "none"
    /\ calls = <<>> /\ saved = <<>> /\ error = "none"

InitEval ==
    /\ mk = NoMask
    /\ TrainIdle
    /\ \E n \in 1..MaxLoaders, c \in 1..MaxClasses, last \in BOOLEAN,
          sal \in BOOLEAN, cil \in BOOLEAN, tr \in BOOLEAN, s \in Settings :
         \E nl \in 1..n, sh \in 0..(n * c - 1) :
            ev = [model |-> [saliency_net |-> sal, class_il |-> cil,
                             shift |-> sh, training |-> tr],
                  dataset |-> [N_TASKS |-> n, N_CLASSES_PER_TASK |-> c,
                               SETTING |-> s,
                               test_loaders |-> TestLoaders(nl, c)],
                  last |-> last,
                  called |-> FALSE]

CallEvaluate ==
    /\ ~ev.called
    /\ LET e == evaluate(ev.model, ev.dataset, ev.last)
       IN  ev' = [model |-> ev.model, dataset |-> ev.dataset, last |-> ev.last,
                  called |-> TRUE, ret |-> e.ret, iterated |-> e.iterated,
                  training |-> e.training]
    /\ UNCHANGED <<mk, trainVars>>

NextEval == CallEvaluate

SpecEval == InitEval /\ [][NextEval]_vars

InitMask ==
    /\ \E o \in Tensors, n \in 1..MaxMaskTasks, c \in 1..MaxClasses :
         \E k \in 0..(n - 1) :
            mk = [outputs |-> o, before |-> o, N_TASKS |-> n,
                  N_CLASSES_PER_TASK |-> c, k |-> k, called |-> FALSE]
    /\ ev = NoEval
    /\ TrainIdle

CallMaskClasses ==
    /\ ~mk.called
    /\ mk' = [mk EXCEPT
                !.outputs = mask_classes(mk.before, mk.N_TASKS,
                                         mk.N_CLASSES_PER_TASK, mk.k),
                !.called = TRUE]
    /\ UNCHANGED <<ev, trainVars>>

NextMask == CallMaskClasses

SpecMask == InitMask /\ [][NextMask]_vars

\* =================================================================
\* train (lines 116-263)
\* =================================================================

Tasks == 0..(cfg.N_TASKS - 1)

NaNLoss == {"nan", "list_nan"}

\* what model.meta_observe can return: a model with a saliency network
\* returns the list of its losses, any other model a number
Losses ==
    IF cfg.saliency_net THEN {"list_num", "list_nan"} ELSE {"num", "nan"}

\* the arguments evaluate gets from train
TrainModel ==
    [saliency_net |-> cfg.saliency_net, class_il |-> cfg.class_il,
     shift |-> weights, training |-> TRUE]

TrainDataset ==
    [N_TASKS |-> cfg.N_TASKS, N_CLASSES_PER_TASK |-> MaxClasses,
     SETTING |-> cfg.SETTING, test_loaders |-> test_loaders]

\* dataset.get_data_loaders() of ContinualDataset: one more test loader,
\* holding the first class of the new task
GetDataLoaders(loaders, c) == Append(loaders, Len(loaders) * c)

\* the weights once the network has seen a batch of task k: its largest
\* logit is the first class of task k
FitTo(k) ==
    LET n == cfg.N_TASKS * MaxClasses
    IN  (n - 1 - k * MaxClasses) % n

\* the configurations train is started with.  Attributes that are read only
\* under another one are fixed when that one is off: wandb (lines 21-24) is
\* read only if not nowand, saliency_scheduler only with a saliency_net,
\* 'buffer_size' in model.args only if savecheck, the loader and debug_mode
\* only if the model is not 'joint'.  The long loader has more batches than
\* line 166 lets through in debug mode.
Configs ==
    {c \in [nowand : BOOLEAN, wandb : BOOLEAN, disable_log : BOOLEAN,
            ignore_other_metrics : BOOLEAN, savecheck : BOOLEAN,
            saliency_net : BOOLEAN, saliency_scheduler : BOOLEAN,
            buffer_size : BOOLEAN, begin_task : BOOLEAN, end_task : BOOLEAN,
            SETTING : Settings, class_il : BOOLEAN, joint : BOOLEAN,
            debug_mode : BOOLEAN, scheduler : BOOLEAN,
            N_TASKS : 1..MaxTasks, n_epochs : {1, MaxEpochs},
            n_batches : {1, 2, MaxBatches}] :
        /\ c.nowand => c.wandb
        /\ c.saliency_scheduler => c.saliency_net
        /\ c.buffer_size => c.savecheck
        /\ c.joint => c.n_batches = 1 /\ ~c.debug_mode}

NoCalls ==
    [wandb_init |-> 0, logger_new |-> 0, copy_get_data_loaders |-> 0,
     get_data_loaders |-> [k \in Tasks |-> 0],
     begin_task |-> [k \in Tasks |-> 0],
     evaluate_last |-> [k \in Tasks |-> 0],
     meta_observe |-> [k \in Tasks |-> 0],
     end_task |-> [k \in Tasks |-> 0],
     evaluate |-> [k \in Tasks |-> 0],
     scheduler_step |-> 0, saliency_scheduler_step |-> 0,
     logger_log |-> 0, wandb_log |-> 0,
     add_bwt |-> 0, add_forgetting |-> 0, bwt_rows |-> 0,
     write |-> 0, wandb_finish |-> 0]

Init ==
    /\ mk = NoMask /\ ev = NoEval
    /\ cfg \in Configs
    /\ pc = "start"
    /\ t = 0 /\ epoch = 0 /\ i = 0
    /\ results = <<>> /\ results_mask_classes = <<>>
    /\ test_loaders = <<>>
    /\ weights = 0
    /\ loss = "none"
    /\ calls = NoCalls
    /\ saved = [k \in Tasks |-> {}]
    /\ error = "none"

Fail(e) == pc' = "failed" /\ error' = e

\* lines 124-139: wandb.init, net.to(device), the empty results, the Logger
Start ==
    /\ pc = "start"
    /\ IF ~cfg.nowand /\ ~cfg.wandb
       THEN /\ Fail("AssertionError")
            /\ UNCHANGED calls
       ELSE /\ calls' = [calls EXCEPT
                  !.wandb_init = IF cfg.nowand THEN @ ELSE @ + 1,
                  !.logger_new = IF cfg.disable_log THEN @ ELSE @ + 1]
            /\ pc' = "copy"
            /\ UNCHANGED error
    /\ results' = <<>> /\ results_mask_classes' = <<>>
    /\ UNCHANGED <<mk, ev, cfg, t, epoch, i, test_loaders, weights, loss, saved>>

\* lines 141-147: the loaders of the copy of the dataset
CopyLoaders ==
    /\ pc = "copy"
    /\ calls' = [calls EXCEPT !.copy_get_data_loaders =
                    IF cfg.ignore_other_metrics THEN @ ELSE @ + cfg.N_TASKS]
    /\ t' = 0
    /\ pc' = IF cfg.N_TASKS > 0 THEN "task" ELSE "final"
    /\ UNCHANGED <<mk, ev, cfg, epoch, i, results, results_mask_classes,
                   test_loaders, weights, loss, saved, error>>

\* lines 148-152: net.train(), dataset.get_data_loaders(), model.begin_task
BeginTask ==
    /\ pc = "task"
    /\ test_loaders' = GetDataLoaders(test_loaders, MaxClasses)
    /\ calls' = [calls EXCEPT
            !.get_data_loaders[t] = @ + 1,
            !.begin_task[t] = IF cfg.begin_task THEN @ + 1 ELSE @]
    /\ pc' = "pre_eval"
    /\ UNCHANGED <<mk, ev, cfg, t, epoch, i, results, results_mask_classes,
                   weights, loss, saved, error>>

\* mutant: the row of the previous task is left as it was
ExtendPreviousRow_Dropped(rows, accs) == rows

\* lines 156 and 158: results[t-1] = results[t-1] + accs[..]
ExtendPreviousRow(rows, accs) ==
    [rows EXCEPT ![t] = @ \o accs]

\* lines 154-161: the accuracy on the new task before it is trained, then
\* dataset.get_scheduler
PreEvaluate ==
    /\ pc = "pre_eval"
    /\ IF t # 0 /\ ~cfg.ignore_other_metrics
       THEN LET accs == evaluate(TrainModel, TrainDataset, TRUE).ret
            IN  /\ results' = ExtendPreviousRow(results, accs[1])
                /\ results_mask_classes' =
                      IF cfg.SETTING = "class-il"
                      THEN ExtendPreviousRow(results_mask_classes, accs[2])
                      ELSE results_mask_classes
                /\ calls' = [calls EXCEPT !.evaluate_last[t] = @ + 1]
       ELSE UNCHANGED <<results, results_mask_classes, calls>>
    /\ epoch' = 0
    /\ pc' = IF cfg.n_epochs > 0 THEN "epoch" ELSE "end_task"
    /\ UNCHANGED <<mk, ev, cfg, t, i, test_loaders, weights, loss, saved, error>>

\* lines 162-164: the head of the epoch loop; 'joint' skips the whole body
BeginEpoch ==
    /\ pc = "epoch"
    /\ IF cfg.joint
       THEN /\ epoch' = epoch + 1
            /\ pc' = IF epoch + 1 < cfg.n_epochs THEN "epoch" ELSE "end_task"
            /\ UNCHANGED i
       ELSE /\ i' = 0
            /\ pc' = "batch"
            /\ UNCHANGED epoch
    /\ UNCHANGED <<mk, ev, cfg, t, results, results_mask_classes, test_loaders,
                   weights, loss, calls, saved, error>>

\* mutant: the loop stops one batch before the end of the loader
BatchesDone_OneShort ==
    \/ i >= cfg.n_batches - 1
    \/ cfg.debug_mode /\ i > DebugLastBatch

\* line 166 and the end of the loader: the batch loop is over
BatchesDone ==
    \/ i >= cfg.n_batches
    \/ cfg.debug_mode /\ i > DebugLastBatch

\* mutant: the assertions of lines 187-190 are gone
IsNaN_Never(l) == FALSE

\* lines 187-190: math.isnan(loss[0]) for a list, math.isnan(loss) otherwise
IsNaN(l) == l \in NaNLoss

\* lines 165-191: one batch: model.meta_observe, the assertion on its loss,
\* the progress bar
Batch ==
    /\ pc = "batch"
    /\ ~BatchesDone
    /\ \E l \in Losses :
        /\ loss' = l
        /\ calls' = [calls EXCEPT !.meta_observe[t] = @ + 1]
        /\ weights' = FitTo(t)
        /\ IF IsNaN(l)
           THEN Fail("AssertionError") /\ UNCHANGED i
           ELSE i' = i + 1 /\ UNCHANGED <<pc, error>>
    /\ UNCHANGED <<mk, ev, cfg, t, epoch, results, results_mask_classes,
                   test_loaders, saved>>

\* lines 193-198: the schedulers step once per epoch
EndEpoch ==
    /\ pc = "batch"
    /\ BatchesDone
    /\ calls' = [calls EXCEPT
            !.scheduler_step = IF cfg.scheduler THEN @ + 1 ELSE @,
            !.saliency_scheduler_step =
                IF cfg.saliency_net /\ cfg.saliency_scheduler THEN @ + 1 ELSE @]
    /\ epoch' = epoch + 1
    /\ pc' = IF epoch + 1 < cfg.n_epochs THEN "epoch" ELSE "end_task"
    /\ UNCHANGED <<mk, ev, cfg, t, i, results, results_mask_classes,
                   test_loaders, weights, loss, saved, error>>

\* lines 200-201: model.end_task
EndTask ==
    /\ pc = "end_task"
    /\ calls' = [calls EXCEPT !.end_task[t] = IF cfg.end_task THEN @ + 1 ELSE @]
    /\ pc' = "evaluate"
    /\ UNCHANGED <<mk, ev, cfg, t, epoch, i, results, results_mask_classes,
                   test_loaders, weights, loss, saved, error>>

\* lines 203-213: the full evaluation, appended to the results
FullEvaluate ==
    /\ pc = "evaluate"
    /\ LET accs == evaluate(TrainModel, TrainDataset, FALSE).ret
       IN  /\ results' = Append(results, accs[1])
           /\ results_mask_classes' = Append(results_mask_classes, accs[2])
    /\ calls' = [calls EXCEPT !.evaluate[t] = @ + 1]
    /\ pc' = "log"
    /\ UNCHANGED <<mk, ev, cfg, t, epoch, i, test_loaders, weights, loss,
                   saved, error>>

\* lines 215-228: logger.log, logger.log_fullacc, wandb.log
Log ==
    /\ pc = "log"
    /\ calls' = [calls EXCEPT
            !.logger_log = IF cfg.disable_log THEN @ ELSE @ + 1,
            !.wandb_log = IF cfg.nowand THEN @ ELSE @ + 1]
    /\ pc' = "checkpoint"
    /\ UNCHANGED <<mk, ev, cfg, t, epoch, i, results, results_mask_classes,
                   test_loaders, weights, loss, saved, error>>

\* the files of lines 234-242
FilesBeforeResults ==
    {"net", "args"}
        \cup (IF cfg.saliency_net THEN {"saliency_net"} ELSE {})
        \cup (IF cfg.buffer_size THEN {"buffer"} ELSE {})

\* lines 230-249, and the step to the next task.  The results record holds
\* logger.dump(), and logger is bound only if not disable_log (line 136)
Checkpoint ==
    /\ pc = "checkpoint"
    /\ IF cfg.savecheck
       THEN IF cfg.disable_log
            THEN /\ saved' = [saved EXCEPT ![t] = FilesBeforeResults]
                 /\ Fail("NameError")
                 /\ UNCHANGED t
            ELSE /\ saved' = [saved EXCEPT
                        ![t] = FilesBeforeResults \cup {"results"}]
                 /\ t' = t + 1
                 /\ pc' = IF t + 1 < cfg.N_TASKS THEN "task" ELSE "final"
                 /\ UNCHANGED error
       ELSE /\ t' = t + 1
            /\ pc' = IF t + 1 < cfg.N_TASKS THEN "task" ELSE "final"
            /\ UNCHANGED <<saved, error>>
    /\ UNCHANGED <<mk, ev, cfg, epoch, i, results, results_mask_classes,
                   test_loaders, weights, loss, calls>>

\* mutant: the metrics are added unless both flags are set
WithOtherMetrics_Or == ~cfg.disable_log \/ ~cfg.ignore_other_metrics

\* line 251: if not args.disable_log and not args.ignore_other_metrics
WithOtherMetrics == ~cfg.disable_log /\ ~cfg.ignore_other_metrics

\* lines 251-263: backward transfer and forgetting, logger.write, wandb.finish
Finish ==
    /\ pc = "final"
    /\ calls' = [calls EXCEPT
            !.add_bwt = IF WithOtherMetrics THEN @ + 1 ELSE @,
            !.add_forgetting = IF WithOtherMetrics THEN @ + 1 ELSE @,
            !.bwt_rows = IF WithOtherMetrics THEN Len(results) ELSE @,
            !.write = IF cfg.disable_log THEN @ ELSE @ + 1,
            !.wandb_log = IF ~cfg.disable_log /\ ~cfg.nowand THEN @ + 1 ELSE @,
            !.wandb_finish = IF cfg.nowand THEN @ ELSE @ + 1]
    /\ pc' = "done"
    /\ UNCHANGED <<mk, ev, cfg, t, epoch, i, results, results_mask_classes,
                   test_loaders, weights, loss, saved, error>>

Next ==
    \/ Start
    \/ CopyLoaders
    \/ BeginTask
    \/ PreEvaluate
    \/ BeginEpoch
    \/ Batch
    \/ EndEpoch
    \/ EndTask
    \/ FullEvaluate
    \/ Log
    \/ Checkpoint
    \/ Finish

Spec == Init /\ [][Next]_vars

\* ------------------------------------------------------------- train claims

\* the batches train observes in one task that it completes
ExpectedBatches ==
    IF cfg.joint THEN 0
    ELSE cfg.n_epochs *
            (IF cfg.debug_mode /\ cfg.n_batches > DebugLastBatch + 1
             THEN DebugLastBatch + 1 ELSE cfg.n_batches)

Bit(b) == IF b THEN 1 ELSE 0

\* C4: train runs the tasks in order 0 .. N_TASKS-1; within a task
\* get_data_loaders, begin_task (if the model has it), all training batches,
\* end_task (if the model has it) and the full evaluate happen in this order,
\* each once; no batch of task s+1 is observed before the full evaluation of
\* task s is in results.
C4_TaskOrder ==
    pc # "idle" =>
    /\ Len(results) = Cardinality({s \in Tasks : calls.evaluate[s] = 1})
    /\ \A s \in Tasks :
        /\ calls.get_data_loaders[s] <= 1
        /\ calls.evaluate[s] <= 1
        /\ calls.begin_task[s] = Bit(cfg.begin_task) * calls.get_data_loaders[s]
        /\ calls.end_task[s] <= Bit(cfg.end_task)
        /\ calls.meta_observe[s] <= ExpectedBatches
        /\ calls.meta_observe[s] > 0 => calls.get_data_loaders[s] = 1
        /\ calls.end_task[s] = 1 =>
              /\ calls.get_data_loaders[s] = 1
              /\ calls.meta_observe[s] = ExpectedBatches
        /\ calls.evaluate[s] = 1 =>
              /\ calls.get_data_loaders[s] = 1
              /\ calls.meta_observe[s] = ExpectedBatches
              /\ calls.end_task[s] = Bit(cfg.end_task)
              /\ Len(results) >= s + 1
        /\ (s > 0 /\ calls.get_data_loaders[s] = 1) =>
              /\ calls.evaluate[s - 1] = 1
              /\ Len(results) >= s
        /\ pc \in {"final", "done"} =>
              /\ calls.get_data_loaders[s] = 1
              /\ calls.evaluate[s] = 1

\* a finished run of two tasks, each with begin_task, end_task and batches
C4_Witness ==
    /\ pc = "done" /\ cfg.N_TASKS = 2
    /\ cfg.begin_task /\ cfg.end_task
    /\ calls.meta_observe[1] = 2 * (DebugLastBatch + 1)
    /\ calls.end_task[1] = 1 /\ calls.evaluate[1] = 1
    /\ Len(results) = 2

\* C5: with args.savecheck, the checkpoint of task s (network, saliency
\* network if any, buffer if 'buffer_size' is in model.args, args, results
\* record) is written after the evaluation of task s and before task s+1
\* starts, for every task and every combination of nowand, disable_log and
\* ignore_other_metrics.
C5_CheckpointEveryTask ==
    pc # "idle" =>
    \A s \in Tasks :
        /\ saved[s] # {} => calls.evaluate[s] = 1
        /\ (cfg.savecheck /\ calls.evaluate[s] = 1
                /\ (t > s \/ pc \in {"final", "done", "failed"}))
              => saved[s] = FilesBeforeResults \cup {"results"}

\* C6: right after the full evaluation of task t, results and
\* results_mask_classes have t+1 rows and row t has t+1 entries; without
\* ignore_other_metrics every earlier row s of results has s+2 entries, the
\* last one being the accuracy on task s+1 before it was trained, and the
\* row of results_mask_classes has s+2 entries only in the class-il setting;
\* with ignore_other_metrics every row s keeps its s+1 entries.
C6_Bookkeeping ==
    pc \in {"log", "checkpoint"} =>
    /\ Len(test_loaders) = t + 1
    /\ Len(results) = t + 1
    /\ Len(results_mask_classes) = t + 1
    /\ Len(results[t + 1]) = t + 1
    /\ Len(results_mask_classes[t + 1]) = t + 1
    /\ \A s \in 0..(t - 1) :
        /\ Len(results[s + 1]) =
              IF cfg.ignore_other_metrics THEN s + 1 ELSE s + 2
        /\ Len(results_mask_classes[s + 1]) =
              IF ~cfg.ignore_other_metrics /\ cfg.SETTING = "class-il"
              THEN s + 2 ELSE s + 1
        /\ (~cfg.ignore_other_metrics /\ cfg.class_il /\ ExpectedBatches > 0) =>
              /\ results[s + 1][s + 1] = 100
              /\ results[s + 1][s + 2] = 0

\* after the second task: the first row got the accuracy on the second task
\* measured before that task was trained
C6_Witness ==
    /\ pc = "log" /\ t = 1
    /\ ~cfg.ignore_other_metrics /\ cfg.SETTING = "class-il"
    /\ results = <<<<100, 0>>, <<0, 100>>>>
    /\ Len(results_mask_classes[1]) = 2

\* C7: logger.add_bwt and logger.add_forgetting are called at most once, only
\* on the results of all tasks and only if neither disable_log nor
\* ignore_other_metrics is set; a run that ends has called each exactly once
\* in that case and never otherwise, and has called logger.write exactly once
\* iff disable_log is false.
C7_FinalLogging ==
    pc # "idle" =>
    /\ calls.add_bwt <= 1 /\ calls.add_forgetting <= 1 /\ calls.write <= 1
    /\ (calls.add_bwt > 0 \/ calls.add_forgetting > 0) =>
          /\ ~cfg.disable_log /\ ~cfg.ignore_other_metrics
          /\ calls.bwt_rows = cfg.N_TASKS
          /\ Len(results) = cfg.N_TASKS
          /\ \A s \in Tasks : calls.evaluate[s] = 1
    /\ calls.write > 0 => ~cfg.disable_log /\ pc = "done"
    /\ pc = "done" =>
          /\ calls.add_bwt =
                Bit(~cfg.disable_log /\ ~cfg.ignore_other_metrics)
          /\ calls.add_forgetting =
                Bit(~cfg.disable_log /\ ~cfg.ignore_other_metrics)
          /\ calls.write = Bit(~cfg.disable_log)

\* a finished run that logs, but skips the other metrics
C7_Witness ==
    /\ pc = "done" /\ cfg.N_TASKS = 2
    /\ ~cfg.disable_log /\ cfg.ignore_other_metrics
    /\ calls.add_bwt = 0 /\ calls.add_forgetting = 0 /\ calls.write = 1

\* C8: once model.meta_observe has returned a NaN loss (or a list whose
\* first element is NaN), train has failed with an AssertionError and takes
\* no further step: no batch, scheduler step, end_task, evaluate, logging,
\* checkpoint or wandb.finish.
C8_NaNStopsTrain ==
    /\ [](loss \in NaNLoss => pc = "failed" /\ error = "AssertionError")
    /\ [][loss \notin NaNLoss]_vars

\* a NaN in the second task, after the scheduler has stepped
C8_Witness ==
    /\ loss \in NaNLoss /\ pc = "failed"
    /\ t = 1 /\ calls.meta_observe[1] = 2
    /\ calls.scheduler_step > 0
    /\ calls.wandb_finish = 0 /\ calls.end_task[1] = 0

\* C2: evaluate(model, dataset, last=False) returns two lists with exactly
\* one entry per test loader, entry k being the accuracy on loader k, all
\* loaders read in order; with last=True each list holds exactly one entry,
\* the one of the final loader, and only that loader is read.
C2_OneEntryPerLoader ==
    ev.called =>
        LET n == Len(ev.dataset.test_loaders)
            accs == ev.ret[1]
            accs_mask_classes == ev.ret[2]
        IN  IF ev.last
            THEN /\ Len(accs) = 1 /\ Len(accs_mask_classes) = 1
                 /\ ev.iterated = <<n - 1>>
                 /\ accs[1] = ClassIlAcc(ev.model, ev.dataset, n - 1)
                 /\ accs_mask_classes[1] = TaskIlAcc(ev.model, ev.dataset, n - 1)
            ELSE /\ Len(accs) = n /\ Len(accs_mask_classes) = n
                 /\ ev.iterated = [k \in 1..n |-> k - 1]
                 /\ \A k \in 0..(n - 1) :
                       /\ accs[k + 1] = ClassIlAcc(ev.model, ev.dataset, k)
                       /\ accs_mask_classes[k + 1] =
                              TaskIlAcc(ev.model, ev.dataset, k)

\* last=True on three loaders: one entry, the third loader's, which differs
\* from the first loader's
C2_Witness ==
    /\ ev.called /\ ev.last
    /\ Len(ev.dataset.test_loaders) = 3
    /\ ev.iterated = <<2>>
    /\ ev.ret[1] = <<100>>
    /\ ClassIlAcc(ev.model, ev.dataset, 0) = 0

\* C3: for every model, evaluate returns a tuple of exactly two lists
C3_ReturnsPair ==
    ev.called => Len(ev.ret) = 2

\* C1: after mask_classes(outputs, dataset, k) with 0 <= k < N_TASKS, every
\* column j < N_TASKS*C of outputs outside [k*C, (k+1)*C) is -inf in every
\* row, and every column inside [k*C, (k+1)*C) keeps its value.
C1_MaskOutsideKeepInside ==
    mk.called =>
        \A r \in 1..Len(mk.outputs) : \A j \in 0..(Len(mk.outputs[r]) - 1) :
            LET lo == mk.k * mk.N_CLASSES_PER_TASK
                hi == (mk.k + 1) * mk.N_CLASSES_PER_TASK
            IN  /\ (j < mk.N_TASKS * mk.N_CLASSES_PER_TASK /\ (j < lo \/ j >= hi))
                      => mk.outputs[r][j + 1] = NegInf
                /\ (lo <= j /\ j < hi)
                      => mk.outputs[r][j + 1] = mk.before[r][j + 1]

\* a call that masks columns on both sides of task k's range and keeps a 1
C1_Witness ==
    /\ mk.called
    /\ mk.k = 1 /\ mk.N_CLASSES_PER_TASK = 1 /\ mk.N_TASKS = 3
    /\ Len(mk.outputs[1]) = 3
    /\ mk.before[1] = <<1, 1, 1>>
    /\ mk.outputs[1] = <<NegInf, 1, NegInf>>
====
